---- MODULE Spec2Model ----
(***************************************************************************)
(* The control-flow converter of autograph                                 *)
(* (tensorflow/python/autograph/converters/control_flow.py).               *)
(*                                                                         *)
(* One control-flow node (If / While / For) is annotated by the static     *)
(* analysis, one annotation at a time, and is then rewritten by the        *)
(* ControlFlowTransformer visitor for its kind.  A run covers one node;    *)
(* the names the namer handed out for earlier nodes of the same transform  *)
(* are the initial value of `generated`.                                   *)
(***************************************************************************)
EXTENDS Integers, Sequences, FiniteSets, TLC

VARIABLES
  pc,         \* "analysis": annotations being attached; "visited": the node's
              \* replacement was returned; "failed": the visitor raised
  node,       \* the control-flow node and its static-analysis annotations
  out,        \* what the visitor computed and the statements it returned
  generated   \* the names the namer has returned so far in this transform

vars == <<pc, node, out, generated>>

(***************************************************************************)
(* Bounds                                                                  *)
(***************************************************************************)
\* Largest number of annotation facts (symbol-in-set memberships, plus the
\* symbol occurrences of the early-stop predicate) attached to the node.
MaxFacts == 4
\* Longest early-stop predicate, in symbol occurrences.
MaxExpr == 2

(***************************************************************************)
(* Symbols (qualified names).  "x" and "x_1" are simple; "x.f" is an       *)
(* attribute of x; "x.f[x_1]" is a subscript of x.f by x_1.               *)
(***************************************************************************)
QNs ==
  [ x        |-> [kind |-> "name", parent |-> "",    attr |-> "",  index |-> ""],
    x_1      |-> [kind |-> "name", parent |-> "",    attr |-> "",  index |-> ""] ]
  @@ ("x.f"      :> [kind |-> "attr", parent |-> "x",   attr |-> "f", index |-> ""])
  @@ ("x.f[x_1]" :> [kind |-> "sub",  parent |-> "x.f", attr |-> "",  index |-> "x_1"])

Symbols == DOMAIN QNs

\* A string that is no entry of QNs is a plain identifier (a generated name).
is_composite(s) == s \in Symbols /\ QNs[s].kind # "name"

is_simple(s) == ~is_composite(s)

RECURSIVE owner_set(_)
owner_set(s) ==
  IF is_composite(s)
    THEN {QNs[s].parent} \cup owner_set(QNs[s].parent)
    ELSE {}

RECURSIVE support_set(_)
support_set(s) ==
  IF ~is_composite(s) THEN {s}
  ELSE IF QNs[s].kind = "attr" THEN support_set(QNs[s].parent)
  ELSE support_set(QNs[s].parent) \cup support_set(QNs[s].index)

\* Simple symbol form: the identifier stem derived from a symbol.
RECURSIVE ssf(_)
ssf(s) ==
  IF ~is_composite(s) THEN s
  ELSE IF QNs[s].kind = "attr" THEN ssf(QNs[s].parent) \o "_" \o QNs[s].attr
  ELSE ssf(QNs[s].parent) \o "_sub_" \o ssf(QNs[s].index)

(***************************************************************************)
(* Helpers for Python containers                                           *)
(***************************************************************************)
Range(q) == {q[i] : i \in 1..Len(q)}

\* Every order in which a Python set may be iterated or turned into a tuple.
Orders(S) ==
  {q \in [1..Cardinality(S) -> S] :
     \A i, j \in 1..Cardinality(S) : q[i] = q[j] => i = j}

\* dict(zip(keys, values))
ZipMap(keys, values) ==
  [k \in Range(keys) |-> values[CHOOSE i \in 1..Len(keys) : keys[i] = k]]

EmptyMap == [k \in {} |-> ""]

(***************************************************************************)
(* The namer: new_symbol(name_root, reserved_locals)                       *)
(***************************************************************************)
Candidate(name_root, n) ==
  IF n = 0 THEN name_root ELSE name_root \o "_" \o ToString(n)

RECURSIVE FirstFree(_, _, _)
FirstFree(name_root, n, taken) ==
  IF Candidate(name_root, n) \notin taken
    THEN Candidate(name_root, n)
    ELSE FirstFree(name_root, n + 1, taken)

\* A name built on name_root that is neither reserved nor returned before
\* (gen is the namer's record of the names it returned).  The namer is a
\* collaborator known by this contract only; the one modelled tries name_root,
\* name_root_1, name_root_2, ... in turn, and the initial value of `generated`
\* varies what it has already handed out.
new_symbol(name_root, reserved_locals, gen) ==
  FirstFree(name_root, 0, reserved_locals \cup gen)

\* [new_symbol(s.ssf(), reserved) for s in syms], the namer remembering each.
RECURSIVE new_symbols(_, _, _)
new_symbols(syms, reserved, gen) ==
  IF syms = <<>> THEN <<>>
  ELSE LET n == new_symbol(ssf(Head(syms)), reserved, gen)
       IN <<n>> \o new_symbols(Tail(syms), reserved, gen \cup {n})

(***************************************************************************)
(* ast_util.rename_symbols                                                 *)
(***************************************************************************)
\* The text of symbol s after renaming with name_map: a mapped symbol becomes
\* its new name; otherwise its parts are renamed.
RECURSIVE rename_symbol(_, _)
rename_symbol(s, name_map) ==
  IF s \in DOMAIN name_map THEN name_map[s]
  ELSE IF ~is_composite(s) THEN s
  ELSE IF QNs[s].kind = "attr"
    THEN rename_symbol(QNs[s].parent, name_map) \o "." \o QNs[s].attr
  ELSE rename_symbol(QNs[s].parent, name_map) \o "["
         \o rename_symbol(QNs[s].index, name_map) \o "]"

\* An expression is the sequence of its symbol occurrences.
rename_expr(expr, name_map) ==
  [i \in 1..Len(expr) |-> rename_symbol(expr[i], name_map)]

\* A block of statements is known by the symbols it modifies and reads.
rename_block(modified, read, name_map) ==
  [modified |-> {rename_symbol(s, name_map) : s \in modified},
   read     |-> {rename_symbol(s, name_map) : s \in read}]

\* Scope.referenced
referenced(modified, read) == modified \cup read

(***************************************************************************)
(* Emitted statements                                                      *)
(***************************************************************************)
NoBlock == [modified |-> {}, read |-> {}]

\* op: "undefined_assign", "assign", "def" or "call".  targets: the names
\* assigned.  func: the function defined or called.  params: the parameters of
\* a def.  args: the arguments of a call, each a tuple of names.  aliases: the
\* <<new, old>> bindings that open a def.  body: the (renamed) block of a def.
\* returns: what a def returns.
Stmt(op, targets, func, params, args, aliases, body, returns) ==
  [op |-> op, targets |-> targets, func |-> func, params |-> params,
   args |-> args, aliases |-> aliases, body |-> body, returns |-> returns]

(***************************************************************************)
(* The node under conversion and the visitor's result                      *)
(***************************************************************************)
\* orelse: node.orelse is non-empty.  has_extra_test: the 'extra_test'
\* annotation is present, and extra_test is its expression.  body_live_in and
\* orelse_live_in are the LIVE_VARS_IN annotations of body[0] and orelse[0].
NewNode(kind, orelse, has_extra_test) ==
  [kind |-> kind, orelse |-> orelse, has_extra_test |-> has_extra_test,
   extra_test |-> <<>>,
   body_modified |-> {}, body_read |-> {},
   orelse_modified |-> {}, orelse_read |-> {},
   cond_read |-> {},
   defined_in |-> {}, live_in |-> {}, live_out |-> {},
   body_live_in |-> {}, orelse_live_in |-> {}]

Facts(n) ==
  Cardinality(n.body_modified) + Cardinality(n.body_read)
  + Cardinality(n.orelse_modified) + Cardinality(n.orelse_read)
  + Cardinality(n.cond_read) + Cardinality(n.defined_in)
  + Cardinality(n.live_in) + Cardinality(n.live_out)
  + Cardinality(n.body_live_in) + Cardinality(n.orelse_live_in)
  + Len(n.extra_test)

NoOut ==
  [result |-> "none", stmts |-> <<>>, new_names |-> {},
   possibly_undefined |-> {},
   need_alias_in_body |-> {}, need_alias_in_orelse |-> {},
   alias_body_map |-> EmptyMap, alias_orelse_map |-> EmptyMap,
   returned_from_cond |-> <<>>,
   loop_state |-> <<>>, state_ssf |-> <<>>, ssf_map |-> EmptyMap,
   extra_deps |-> <<>>]

(***************************************************************************)
(* _create_undefined_assigns                                               *)
(***************************************************************************)
\* One `var = ag__.Undefined(symbol_name)` per symbol, in iteration order.
_create_undefined_assigns(undefined_symbols) ==
  [i \in 1..Len(undefined_symbols) |->
     Stmt("undefined_assign", <<undefined_symbols[i]>>, "ag__.Undefined",
          <<>>, <<<<ssf(undefined_symbols[i])>>>>, <<>>, NoBlock, <<>>)]

(***************************************************************************)
(* visit_If                                                                *)
(***************************************************************************)
\* The loop `for s in scope.modified` of _determine_aliased_symbols: a
\* composite symbol with an owner in block_live_in is added to block_live_in.
RECURSIVE add_live_composites(_, _)
add_live_composites(order, block_live_in) ==
  IF order = <<>> THEN block_live_in
  ELSE LET s == Head(order)
           live_parents == block_live_in \cap owner_set(s)
       IN add_live_composites(
            Tail(order),
            IF is_composite(s) /\ live_parents # {}
              THEN block_live_in \cup {s}
              ELSE block_live_in)

\* Faulty variant of _determine_aliased_symbols: composite symbols with live
\* owners are not counted as live.
_determine_aliased_symbols_no_owners(scope_modified, node_defined_in, block, block0_live_in, order) ==
  LET block_live_in == IF block THEN block0_live_in ELSE {}
  IN (scope_modified \cap node_defined_in) \cap block_live_in

\* block: the branch has statements; block0_live_in: the annotation of its
\* first statement; order: the order in which scope.modified is iterated.
_determine_aliased_symbols(scope_modified, node_defined_in, block, block0_live_in, order) ==
  LET block_live_in == IF block THEN block0_live_in ELSE {}
  IN (scope_modified \cap node_defined_in)
       \cap add_live_composites(order, block_live_in)

\* Faulty variant of returned_from_cond: the owners of a composite symbol are
\* not consulted.
RECURSIVE returned_from_cond_live_only(_, _)
returned_from_cond_live_only(order, live_out) ==
  IF order = <<>> THEN {}
  ELSE LET s == Head(order)
           rest == returned_from_cond_live_only(Tail(order), live_out)
       IN IF s \in live_out THEN rest \cup {s} ELSE rest

\* The loop `for s in modified_in_cond` that fills returned_from_cond.
RECURSIVE returned_from_cond(_, _)
returned_from_cond(order, live_out) ==
  IF order = <<>> THEN {}
  ELSE LET s == Head(order)
           rest == returned_from_cond(Tail(order), live_out)
       IN IF s \in live_out THEN rest \cup {s}
          ELSE IF is_composite(s) /\ (live_out \cap owner_set(s)) # {}
            THEN rest \cup {s}
          ELSE rest

\* scope.modified & returned_from_cond - defined_in  (Python: - binds first)
created_in(scope_modified, returned, defined_in) ==
  scope_modified \cap (returned \ defined_in)

\* Faulty variant of basic_created_in: composite symbols are kept.
basic_created_in_all(created) == created

basic_created_in(created) == {s \in created : ~is_composite(s)}

\* Faulty variant of possibly_undefined: union instead of symmetric difference.
possibly_undefined_union(basic_body, basic_orelse) ==
  basic_body \cup basic_orelse

\* set(basic_created_in_body) ^ set(basic_created_in_orelse)
possibly_undefined(basic_body, basic_orelse) ==
  (basic_body \ basic_orelse) \cup (basic_orelse \ basic_body)

\* alias_map[s] if s in need_alias else s, for s in returned_from_cond
returned_from_branch(returned, alias_map, need_alias) ==
  [i \in 1..Len(returned) |->
     IF returned[i] \in need_alias THEN alias_map[returned[i]] ELSE returned[i]]

\* The three shapes of the return statement of a branch function.
return_form(returns) ==
  IF Len(returns) = 0 THEN "return 1"
  ELSE IF Len(returns) = 1 THEN "return retval"
  ELSE "return (retvals,)"

_create_cond_branch(body_name, aliased_orig_names, aliased_new_names, body, returns) ==
  Stmt("def", <<>>, body_name, <<>>, <<<<return_form(returns)>>>>,
       [i \in 1..Len(aliased_orig_names) |->
          <<aliased_new_names[i], aliased_orig_names[i]>>],
       body, returns)

\* results is <<>> for None.
_create_cond_expr(results, test, body_name, orelse_name) ==
  Stmt("call", results, "ag__.if_stmt", <<>>,
       <<<<test>>, <<body_name>>, <<orelse_name>>>>, <<>>, NoBlock, <<>>)

create_assignment(target, expression) ==
  Stmt("assign", <<target>>, "", <<>>, <<<<expression>>>>, <<>>, NoBlock, <<>>)

VisitIf ==
  /\ pc = "analysis"
  /\ node.kind = "If"
  /\ LET body_referenced == referenced(node.body_modified, node.body_read)
         orelse_referenced == referenced(node.orelse_modified, node.orelse_read)
         defined_in == node.defined_in
         live_out == node.live_out
         modified_in_cond == node.body_modified \cup node.orelse_modified
     IN \E body_order \in Orders(node.body_modified),
           orelse_order \in Orders(node.orelse_modified),
           cond_order \in Orders(modified_in_cond) :
        LET need_alias_in_body ==
              _determine_aliased_symbols(node.body_modified, defined_in, TRUE,
                                         node.body_live_in, body_order)
            need_alias_in_orelse ==
              _determine_aliased_symbols(node.orelse_modified, defined_in,
                                         node.orelse, node.orelse_live_in,
                                         orelse_order)
            returned == returned_from_cond(cond_order, live_out)
            created_in_body == created_in(node.body_modified, returned, defined_in)
            created_in_orelse ==
              created_in(node.orelse_modified, returned, defined_in)
            undefined ==
              possibly_undefined(basic_created_in(created_in_body),
                                 basic_created_in(created_in_orelse))
        IN \E aliased_body_orig_names \in Orders(need_alias_in_body),
              aliased_orelse_orig_names \in Orders(need_alias_in_orelse),
              returned_tuple \in Orders(returned),
              undefined_order \in Orders(undefined) :
           LET aliased_body_new_names ==
                 new_symbols(aliased_body_orig_names, body_referenced, generated)
               gen1 == generated \cup Range(aliased_body_new_names)
               aliased_orelse_new_names ==
                 new_symbols(aliased_orelse_orig_names, orelse_referenced, gen1)
               gen2 == gen1 \cup Range(aliased_orelse_new_names)
               alias_body_map ==
                 ZipMap(aliased_body_orig_names, aliased_body_new_names)
               alias_orelse_map ==
                 ZipMap(aliased_orelse_orig_names, aliased_orelse_new_names)
               node_body ==
                 rename_block(node.body_modified, node.body_read, alias_body_map)
               node_orelse ==
                 rename_block(node.orelse_modified, node.orelse_read,
                              alias_orelse_map)
               cond_var_name == new_symbol("cond", body_referenced, gen2)
               gen3 == gen2 \cup {cond_var_name}
               body_name == new_symbol("if_true", body_referenced, gen3)
               gen4 == gen3 \cup {body_name}
               orelse_name == new_symbol("if_false", orelse_referenced, gen4)
               gen5 == gen4 \cup {orelse_name}
               dummy == <<"ag__.match_staging_level(1, " \o cond_var_name \o ")">>
               cond_results == returned_tuple
               returned_from_body ==
                 IF returned_tuple # <<>>
                   THEN returned_from_branch(returned_tuple, alias_body_map,
                                             need_alias_in_body)
                   ELSE dummy
               returned_from_orelse ==
                 IF returned_tuple # <<>>
                   THEN returned_from_branch(returned_tuple, alias_orelse_map,
                                             need_alias_in_orelse)
                   ELSE dummy
               cond_assign == create_assignment(cond_var_name, "test")
               body_def ==
                 _create_cond_branch(body_name, aliased_body_orig_names,
                                     aliased_body_new_names, node_body,
                                     returned_from_body)
               orelse_def ==
                 _create_cond_branch(orelse_name, aliased_orelse_orig_names,
                                     aliased_orelse_new_names, node_orelse,
                                     returned_from_orelse)
               undefined_assigns == _create_undefined_assigns(undefined_order)
               cond_expr ==
                 _create_cond_expr(cond_results, cond_var_name, body_name,
                                   orelse_name)
           IN /\ out' = [NoOut EXCEPT
                     !.result = "ok",
                     !.stmts = undefined_assigns
                               \o <<cond_assign, body_def, orelse_def, cond_expr>>,
                     !.new_names = gen5 \ generated,
                     !.possibly_undefined = undefined,
                     !.need_alias_in_body = need_alias_in_body,
                     !.need_alias_in_orelse = need_alias_in_orelse,
                     !.alias_body_map = alias_body_map,
                     !.alias_orelse_map = alias_orelse_map,
                     !.returned_from_cond = returned_tuple]
              /\ generated' = gen5
  /\ pc' = "visited"
  /\ UNCHANGED node

(***************************************************************************)
(* _get_loop_state, _state_constructs                                      *)
(***************************************************************************)
\* Faulty variant of loop_state_of: a composite symbol is kept when any (not
\* every) member of its support set is live into the loop.
RECURSIVE loop_state_of_any_support(_, _, _)
loop_state_of_any_support(order, live_in, live_out) ==
  IF order = <<>> THEN {}
  ELSE LET s == Head(order)
           rest == loop_state_of_any_support(Tail(order), live_in, live_out)
       IN IF s \notin live_in /\ s \notin live_out THEN rest
          ELSE IF is_composite(s) /\ ~(\E p \in support_set(s) : p \in live_in)
            THEN rest
          ELSE rest \cup {s}

\* The loop `for s in body_scope.modified` that fills loop_state.
RECURSIVE loop_state_of(_, _, _)
loop_state_of(order, live_in, live_out) ==
  IF order = <<>> THEN {}
  ELSE LET s == Head(order)
           rest == loop_state_of(Tail(order), live_in, live_out)
       IN IF s \notin live_in /\ s \notin live_out THEN rest
          ELSE IF is_composite(s) /\ ~(\A p \in support_set(s) : p \in live_in)
            THEN rest
          ELSE rest \cup {s}

\* Faulty variant of possibly_undefs: composite symbols are kept.
possibly_undefs_all(loop_state, defined_in) == loop_state \ defined_in

\* possibly_undefs = {v for v in loop_state - defined_in if v.is_simple()}
possibly_undefs(loop_state, defined_in) ==
  LET undefined_lives == loop_state \ defined_in
  IN {v \in undefined_lives : is_simple(v)}

\* Faulty variant of ssf_map_of: the comparison is inverted, so a symbol whose
\* parameter name differs from its text is left out of the map.
ssf_map_of_inverted(loop_state, state_ssf) ==
  [name \in {loop_state[i] : i \in {j \in 1..Len(loop_state) :
                                      loop_state[j] = state_ssf[j]}} |->
     state_ssf[CHOOSE i \in 1..Len(loop_state) : loop_state[i] = name]]

\* ssf_map: the state symbols whose parameter name differs from their text.
ssf_map_of(loop_state, state_ssf) ==
  [name \in {loop_state[i] : i \in {j \in 1..Len(loop_state) :
                                      loop_state[j] # state_ssf[j]}} |->
     state_ssf[CHOOSE i \in 1..Len(loop_state) : loop_state[i] = name]]

(***************************************************************************)
(* visit_While                                                             *)
(***************************************************************************)
\* Faulty variant of cond_closure: the symbols the test reads, as they are.
cond_closure_reads(cond_read) == cond_read

\* cond_closure: the union of the support sets of the symbols the test reads.
cond_closure(cond_read) == UNION {support_set(s) : s \in cond_read}

while_with_state(loop_state, state_ssf, test_name, test, body_name, body, extra_deps) ==
  << Stmt("def", <<>>, test_name, state_ssf, <<>>, <<>>, test, <<"test">>),
     Stmt("def", <<>>, body_name, state_ssf, <<>>, <<>>, body, state_ssf),
     Stmt("call", loop_state, "ag__.while_stmt", <<>>,
          <<<<test_name>>, <<body_name>>, loop_state, extra_deps>>,
          <<>>, NoBlock, <<>>) >>

while_without_state(test_name, test, body_name, body, extra_deps) ==
  << Stmt("def", <<>>, test_name, <<>>, <<>>, <<>>, test, <<"test">>),
     Stmt("def", <<>>, body_name, <<>>, <<>>, <<>>, body, <<>>),
     Stmt("call", <<>>, "ag__.while_stmt", <<>>,
          <<<<test_name>>, <<body_name>>, <<>>, extra_deps>>,
          <<>>, NoBlock, <<>>) >>

VisitWhile ==
  /\ pc = "analysis"
  /\ node.kind = "While"
  /\ LET reserved_symbols == referenced(node.body_modified, node.body_read)
         closure == cond_closure(node.cond_read)
     IN \E order \in Orders(node.body_modified) :
        LET loop_state_set == loop_state_of(order, node.live_in, node.live_out)
            undefs == possibly_undefs(loop_state_set, node.defined_in)
        IN \E loop_state \in Orders(loop_state_set),
              extra_deps \in Orders(closure),
              undefined_order \in Orders(undefs) :
           LET state_ssf == new_symbols(loop_state, reserved_symbols, generated)
               gen1 == generated \cup Range(state_ssf)
               ssf_map == ssf_map_of(loop_state, state_ssf)
               node_body ==
                 rename_block(node.body_modified, node.body_read, ssf_map)
               test == rename_block({}, node.cond_read, ssf_map)
               test_name == new_symbol("loop_test", reserved_symbols, gen1)
               gen2 == gen1 \cup {test_name}
               body_name == new_symbol("loop_body", reserved_symbols, gen2)
               gen3 == gen2 \cup {body_name}
               new_node ==
                 IF loop_state # <<>>
                   THEN while_with_state(loop_state, state_ssf, test_name, test,
                                         body_name, node_body, extra_deps)
                   ELSE while_without_state(test_name, test, body_name,
                                            node_body, extra_deps)
               undefined_assigns == _create_undefined_assigns(undefined_order)
           IN /\ out' = [NoOut EXCEPT
                     !.result = "ok",
                     !.stmts = undefined_assigns \o new_node,
                     !.new_names = gen3 \ generated,
                     !.possibly_undefined = undefs,
                     !.loop_state = loop_state,
                     !.state_ssf = state_ssf,
                     !.ssf_map = ssf_map,
                     !.extra_deps = extra_deps]
              /\ generated' = gen3
  /\ pc' = "visited"
  /\ UNCHANGED node

(***************************************************************************)
(* visit_For                                                               *)
(***************************************************************************)
_create_for_loop_early_stopping(loop_state, state_ssf, extra_test_name, extra_test, body_name, loop_body) ==
  << Stmt("def", <<>>, extra_test_name, state_ssf, <<>>, <<>>, NoBlock,
          extra_test),
     Stmt("def", <<>>, body_name, <<"loop_vars">> \o state_ssf, <<>>,
          << <<"iterate", "loop_vars">> >>, loop_body, state_ssf),
     Stmt("call", loop_state, "ag__.for_stmt", <<>>,
          <<<<"iter_">>, <<extra_test_name>>, <<body_name>>, loop_state>>,
          <<>>, NoBlock, <<>>) >>

_create_for_loop_with_state(loop_state, state_ssf, body_name, loop_body) ==
  << Stmt("def", <<>>, body_name, <<"loop_vars">> \o state_ssf, <<>>,
          << <<"iterate", "loop_vars">> >>, loop_body, state_ssf),
     Stmt("call", loop_state, "ag__.for_stmt", <<>>,
          <<<<"iter_">>, <<"None">>, <<body_name>>, loop_state>>,
          <<>>, NoBlock, <<>>) >>

_create_for_loop_without_state(body_name, loop_body) ==
  << Stmt("def", <<>>, body_name, <<"loop_vars">>, <<>>,
          << <<"iterate", "loop_vars">> >>, loop_body, <<>>),
     Stmt("call", <<>>, "ag__.for_stmt", <<>>,
          <<<<"iter_">>, <<"None">>, <<body_name>>, <<>>>>,
          <<>>, NoBlock, <<>>) >>

\* Faulty variant of for_loop_case: no assertion; a loop without state is
\* emitted although early stopping is flagged.
for_loop_case_no_assert(loop_state, has_extra_test) ==
  IF loop_state # <<>>
    THEN IF has_extra_test THEN "early_stopping" ELSE "with_state"
    ELSE "without_state"

\* The branches of visit_For on (loop_state, has_extra_test).
for_loop_case(loop_state, has_extra_test) ==
  IF loop_state # <<>>
    THEN IF has_extra_test THEN "early_stopping" ELSE "with_state"
    ELSE IF has_extra_test THEN "AssertionError" ELSE "without_state"

VisitFor ==
  /\ pc = "analysis"
  /\ node.kind = "For"
  /\ LET reserved_symbols == referenced(node.body_modified, node.body_read)
     IN \E order \in Orders(node.body_modified) :
        LET loop_state_set == loop_state_of(order, node.live_in, node.live_out)
            undefs == possibly_undefs(loop_state_set, node.defined_in)
        IN \E loop_state \in Orders(loop_state_set),
              undefined_order \in Orders(undefs) :
           LET state_ssf == new_symbols(loop_state, reserved_symbols, generated)
               gen1 == generated \cup Range(state_ssf)
               ssf_map == ssf_map_of(loop_state, state_ssf)
               node_body ==
                 rename_block(node.body_modified, node.body_read, ssf_map)
               body_name == new_symbol("loop_body", reserved_symbols, gen1)
               gen2 == gen1 \cup {body_name}
               case == for_loop_case(loop_state, node.has_extra_test)
               extra_test == rename_expr(node.extra_test, ssf_map)
               extra_test_name == new_symbol("extra_test", reserved_symbols, gen2)
               gen3 == IF case = "early_stopping"
                         THEN gen2 \cup {extra_test_name} ELSE gen2
               new_node ==
                 IF case = "early_stopping"
                   THEN _create_for_loop_early_stopping(
                          loop_state, state_ssf, extra_test_name, extra_test,
                          body_name, node_body)
                 ELSE IF case = "with_state"
                   THEN _create_for_loop_with_state(loop_state, state_ssf,
                                                    body_name, node_body)
                 ELSE _create_for_loop_without_state(body_name, node_body)
               undefined_assigns == _create_undefined_assigns(undefined_order)
           IN IF case = "AssertionError"
                THEN /\ out' = [NoOut EXCEPT !.result = "AssertionError",
                                             !.new_names = gen3 \ generated,
                                             !.loop_state = loop_state]
                     /\ generated' = gen3
                     /\ pc' = "failed"
                ELSE /\ out' = [NoOut EXCEPT
                          !.result = "ok",
                          !.stmts = undefined_assigns \o new_node,
                          !.new_names = gen3 \ generated,
                          !.possibly_undefined = undefs,
                          !.loop_state = loop_state,
                          !.state_ssf = state_ssf,
                          !.ssf_map = ssf_map]
                     /\ generated' = gen3
                     /\ pc' = "visited"
  /\ UNCHANGED node

(***************************************************************************)
(* The static analysis attaches the annotations the visitors read          *)
(***************************************************************************)
Annotate(field) ==
  /\ pc = "analysis"
  /\ Facts(node) < MaxFacts
  /\ \E s \in Symbols \ node[field] :
       node' = [node EXCEPT ![field] = @ \cup {s}]
  /\ UNCHANGED <<pc, out, generated>>

\* NodeAnno.BODY_SCOPE: modified, read
AnnotateBodyModified == node.kind \in {"If", "While", "For"} /\ Annotate("body_modified")

AnnotateBodyRead == node.kind \in {"If", "While", "For"} /\ Annotate("body_read")

\* NodeAnno.ORELSE_SCOPE of a conditional with an else branch
AnnotateOrelseModified ==
  node.kind = "If" /\ node.orelse /\ Annotate("orelse_modified")

AnnotateOrelseRead ==
  node.kind = "If" /\ node.orelse /\ Annotate("orelse_read")

\* NodeAnno.COND_SCOPE: the symbols read by the test
AnnotateCondRead == node.kind # "For" /\ Annotate("cond_read")

\* Static.DEFINED_VARS_IN, Static.LIVE_VARS_OUT of the node
AnnotateDefinedIn == node.kind \in {"If", "While", "For"} /\ Annotate("defined_in")

AnnotateLiveOut == node.kind \in {"If", "While", "For"} /\ Annotate("live_out")

\* Static.LIVE_VARS_IN of a loop node
AnnotateLiveIn == node.kind # "If" /\ Annotate("live_in")

\* Static.LIVE_VARS_IN of the first statement of each branch
AnnotateBodyLiveIn == node.kind = "If" /\ Annotate("body_live_in")

AnnotateOrelseLiveIn ==
  node.kind = "If" /\ node.orelse /\ Annotate("orelse_live_in")

\* The 'extra_test' annotation: one more symbol occurrence of its expression
AnnotateExtraTest ==
  /\ pc = "analysis"
  /\ node.kind = "For" /\ node.has_extra_test
  /\ Facts(node) < MaxFacts
  /\ Len(node.extra_test) < MaxExpr
  /\ \E s \in Symbols : node' = [node EXCEPT !.extra_test = Append(@, s)]
  /\ UNCHANGED <<pc, out, generated>>

(***************************************************************************)
(* Specifications                                                          *)
(***************************************************************************)
\* Names the namer may have returned for earlier nodes of the transform.
PriorNames == {"x_1", "cond"}

InitNode(kinds) ==
  /\ pc = "analysis"
  /\ node \in {NewNode(k, o, e) : k \in kinds, o \in BOOLEAN, e \in BOOLEAN}
  /\ node.kind # "If" => ~node.orelse
  /\ node.kind # "For" => ~node.has_extra_test
  /\ out = NoOut
  /\ generated \in SUBSET PriorNames

\* Conditionals: which symbols are returned and which are guarded.
InitCond == InitNode({"If"})

NextCond ==
  \/ AnnotateBodyModified
  \/ AnnotateOrelseModified
  \/ AnnotateDefinedIn
  \/ AnnotateLiveOut
  \/ VisitIf

SpecCond == InitCond /\ [][NextCond]_vars

\* Conditionals: which symbols are aliased inside the branch functions.
InitAlias == InitNode({"If"})

NextAlias ==
  \/ AnnotateBodyModified
  \/ AnnotateOrelseModified
  \/ AnnotateDefinedIn
  \/ AnnotateBodyLiveIn
  \/ AnnotateOrelseLiveIn
  \/ VisitIf

SpecAlias == InitAlias /\ [][NextAlias]_vars

\* Loops: the loop state, its guards and the three shapes of a for loop.
InitLoop == InitNode({"While", "For"})

NextLoop ==
  \/ AnnotateBodyModified
  \/ AnnotateLiveIn
  \/ AnnotateLiveOut
  \/ AnnotateDefinedIn
  \/ AnnotateExtraTest
  \/ VisitWhile
  \/ VisitFor

SpecLoop == InitLoop /\ [][NextLoop]_vars

\* While loops: the dependencies of the test.
InitWhile == InitNode({"While"})

NextWhile ==
  \/ AnnotateBodyModified
  \/ AnnotateCondRead
  \/ AnnotateLiveIn
  \/ AnnotateLiveOut
  \/ VisitWhile

SpecWhile == InitWhile /\ [][NextWhile]_vars

\* Every annotation and every visitor.
Init == InitNode({"If", "While", "For"})

Next ==
  \/ AnnotateBodyModified
  \/ AnnotateBodyRead
  \/ AnnotateOrelseModified
  \/ AnnotateOrelseRead
  \/ AnnotateCondRead
  \/ AnnotateDefinedIn
  \/ AnnotateLiveIn
  \/ AnnotateLiveOut
  \/ AnnotateBodyLiveIn
  \/ AnnotateOrelseLiveIn
  \/ AnnotateExtraTest
  \/ VisitIf
  \/ VisitWhile
  \/ VisitFor

Spec == Init /\ [][Next]_vars

(***************************************************************************)
(* Reading the visitor's result                                            *)
(***************************************************************************)
IsLoop == node.kind \in {"While", "For"}

GuardIndexes ==
  {i \in 1..Len(out.stmts) : out.stmts[i].op = "undefined_assign"}

GuardedSymbols == {out.stmts[i].targets[1] : i \in GuardIndexes}

GuardCount(s) ==
  Cardinality({i \in GuardIndexes : out.stmts[i].targets[1] = s})

\* Every guard binding comes before every other statement.
GuardsFirst ==
  \A i \in GuardIndexes : \A j \in 1..Len(out.stmts) :
    j < i => j \in GuardIndexes

Returned == Range(out.returned_from_cond)

LoopState == Range(out.loop_state)

\* The symbols the claims expect in the loop state of node n.
InLoopState(n, s) ==
  /\ s \in n.body_modified
  /\ s \in n.live_in \/ s \in n.live_out
  /\ is_composite(s) => support_set(s) \subseteq n.live_in

(***************************************************************************)
(* Claims                                                                  *)
(***************************************************************************)

\* C1: for every loop node and every symbol s, _get_loop_state puts s in the
\* loop state iff s is modified in the body, is live into or out of the loop
\* and, when composite, has its whole support set live into the loop; so a
\* symbol modified in the body that is neither live-in nor live-out is never
\* in the loop state.
C1_LoopState ==
  (IsLoop /\ pc # "analysis") =>
    /\ LoopState \subseteq Symbols
    /\ \A s \in Symbols : s \in LoopState <=> InLoopState(node, s)
    /\ \A s \in node.body_modified :
         (s \notin node.live_in /\ s \notin node.live_out) => s \notin LoopState

\* A loop whose state holds a composite symbol and leaves out a loop-local one.
C1_Witness ==
  /\ IsLoop /\ pc = "visited"
  /\ \E s \in LoopState : is_composite(s)
  /\ \E s \in node.body_modified \ LoopState :
       s \notin node.live_in /\ s \notin node.live_out

\* C2: for every conditional and every symbol s, visit_If returns s from the
\* conditional iff s is modified in a branch and either s is live out, or s is
\* composite and one of its owners is live out.
C2_Returned ==
  (node.kind = "If" /\ pc = "visited") =>
    /\ Returned \subseteq Symbols
    /\ \A s \in Symbols :
         s \in Returned <=>
           /\ s \in node.body_modified \cup node.orelse_modified
           /\ \/ s \in node.live_out
              \/ is_composite(s) /\ owner_set(s) \cap node.live_out # {}
    /\ out.stmts[Len(out.stmts)].targets = out.returned_from_cond

\* A composite symbol returned only because an owner is live out.
C2_Witness ==
  /\ node.kind = "If" /\ pc = "visited"
  /\ \E s \in Returned : is_composite(s) /\ s \notin node.live_out

CreatedIn(scope_modified) ==
  (scope_modified \cap Returned) \ node.defined_in

SimpleOf(S) == {s \in S : is_simple(s)}

\* C3: for every conditional, the symbols that get an undefined-guard binding
\* before the rewritten construct are exactly the symmetric difference of the
\* simple members of created_in_body and created_in_orelse, where
\* created_in_X = (X.modified /\ returned) \ defined_in; a missing else counts
\* as the empty set, and no composite symbol is guarded.
C3_Guarded ==
  (node.kind = "If" /\ pc = "visited") =>
    LET b == SimpleOf(CreatedIn(node.body_modified))
        o == IF node.orelse THEN SimpleOf(CreatedIn(node.orelse_modified)) ELSE {}
    IN /\ GuardedSymbols = (b \ o) \cup (o \ b)
       /\ GuardsFirst
       /\ \A s \in GuardedSymbols : is_simple(s)

\* No else branch: a simple symbol first assigned in the body and live out is
\* guarded.
C3_Witness ==
  /\ node.kind = "If" /\ pc = "visited" /\ ~node.orelse
  /\ \E s \in node.body_modified \cap node.live_out :
       is_simple(s) /\ s \notin node.defined_in /\ s \in GuardedSymbols
  /\ \E s \in CreatedIn(node.body_modified) : is_composite(s)

\* Live at the first statement of a branch, composites counted with their owners.
ClosureLive(block_live_in, s) ==
  \/ s \in block_live_in
  \/ is_composite(s) /\ owner_set(s) \cap block_live_in # {}

AliasDefs(i) == {out.stmts[i].aliases[k][2] : k \in 1..Len(out.stmts[i].aliases)}

\* C4: s is aliased inside a branch function iff s is modified in that
\* branch, is in the conditional's defined_in and is live at the branch's first
\* statement (itself, or through an owner when composite); an absent branch
\* aliases nothing; each branch is decided from its own sets, whatever the
\* order in which its modified set is iterated.
C4_Aliased ==
  (node.kind = "If" /\ pc = "visited") =>
    LET n == Len(out.stmts)
    IN /\ \A s \in Symbols :
            s \in out.need_alias_in_body <=>
              /\ s \in node.body_modified
              /\ s \in node.defined_in
              /\ ClosureLive(node.body_live_in, s)
       /\ \A s \in Symbols :
            s \in out.need_alias_in_orelse <=>
              /\ node.orelse
              /\ s \in node.orelse_modified
              /\ s \in node.defined_in
              /\ ClosureLive(node.orelse_live_in, s)
       /\ out.need_alias_in_body \cup out.need_alias_in_orelse \subseteq Symbols
       /\ DOMAIN out.alias_body_map = out.need_alias_in_body
       /\ DOMAIN out.alias_orelse_map = out.need_alias_in_orelse
       /\ AliasDefs(n - 2) = out.need_alias_in_body
       /\ AliasDefs(n - 1) = out.need_alias_in_orelse

\* A composite symbol aliased in the body through a live owner, while the
\* else branch aliases something else.
C4_Witness ==
  /\ node.kind = "If" /\ pc = "visited"
  /\ \E s \in out.need_alias_in_body :
       is_composite(s) /\ s \notin node.body_live_in
  /\ out.need_alias_in_orelse # out.need_alias_in_body

\* C5: for every while and for loop, the undefined-guard bindings are exactly
\* one per symbol that is in the loop state, is simple and is not in
\* defined_in; no composite symbol and no symbol outside the loop state is
\* guarded; and the guards precede every other statement of the construct.
C5_LoopGuards ==
  (IsLoop /\ pc # "analysis") =>
    /\ GuardedSymbols \subseteq Symbols
    /\ \A s \in Symbols :
         GuardCount(s) =
           IF s \in LoopState /\ is_simple(s) /\ s \notin node.defined_in
             THEN 1 ELSE 0
    /\ GuardsFirst

\* A loop with a guarded simple state symbol and a composite state symbol that
\* is not defined before the loop either, and is not guarded.
C5_Witness ==
  /\ IsLoop /\ pc = "visited"
  /\ GuardedSymbols # {}
  /\ \E s \in LoopState \ node.defined_in : is_composite(s)
  /\ Len(out.stmts) > Cardinality(GuardIndexes)

\* C6: visit_For fails with an assertion error, returning no statements, when
\* the node carries 'extra_test' and its loop state is empty; in every other
\* case it returns the rewritten loop.
C6_ForAssertion ==
  (node.kind = "For" /\ pc # "analysis") =>
    LET empty == \A s \in Symbols : ~InLoopState(node, s)
    IN /\ pc = "failed" <=> (node.has_extra_test /\ empty)
       /\ pc = "failed" => out.result = "AssertionError" /\ out.stmts = <<>>
       /\ pc = "visited" =>
            /\ out.result = "ok"
            /\ out.stmts # <<>>
            /\ out.stmts[Len(out.stmts)].func = "ag__.for_stmt"

\* A for loop with early stopping whose body modifies only loop-local symbols.
C6_Witness ==
  /\ node.kind = "For" /\ pc = "failed"
  /\ node.has_extra_test /\ node.body_modified # {}

\* C7 as stated: a simple symbol assigned in exactly one branch and live after
\* the conditional gets exactly one guard, and a symbol assigned in both
\* branches gets none.
C7_Original ==
  (node.kind = "If" /\ pc = "visited") =>
    /\ \A s \in Symbols :
         ( /\ is_simple(s)
           /\ (s \in node.body_modified) # (s \in node.orelse_modified)
           /\ s \in node.live_out )
         => GuardCount(s) = 1
    /\ \A s \in node.body_modified \cap node.orelse_modified : GuardCount(s) = 0

\* C7: a simple symbol assigned in exactly one branch, live after the
\* conditional and not in defined_in gets exactly one guard; a symbol assigned
\* in both branches gets none.
C7_Amended ==
  (node.kind = "If" /\ pc = "visited") =>
    /\ \A s \in Symbols :
         ( /\ is_simple(s)
           /\ (s \in node.body_modified) # (s \in node.orelse_modified)
           /\ s \in node.live_out
           /\ s \notin node.defined_in )
         => GuardCount(s) = 1
    /\ \A s \in node.body_modified \cap node.orelse_modified : GuardCount(s) = 0

\* A conditional with both branches: one simple symbol is assigned in the body
\* only, is live out and is guarded once; another symbol is assigned in both
\* branches and is not guarded.
C7_Witness ==
  /\ node.kind = "If" /\ pc = "visited" /\ node.orelse
  /\ \E s \in node.body_modified \ node.orelse_modified :
       is_simple(s) /\ s \in node.live_out /\ GuardCount(s) = 1
  /\ \E s \in node.body_modified \cap node.orelse_modified : GuardCount(s) = 0

\* The symbols referenced anywhere in the construct.
ConstructReferenced ==
  referenced(node.body_modified, node.body_read)
    \cup referenced(node.orelse_modified, node.orelse_read)
    \cup node.cond_read \cup Range(node.extra_test)

\* C8: every name generated while rewriting a construct differs from the name
\* of every symbol referenced anywhere in that construct.
C8_FreshNames ==
  pc # "analysis" => out.new_names \cap ConstructReferenced = {}

\* The statements after the guards.
Construct(i) == out.stmts[Cardinality(GuardIndexes) + i]

\* The parameter that carries each loop-state symbol.
ParamMap == ZipMap(out.loop_state, out.state_ssf)

\* C9: in a for loop with early stopping and a non-empty loop state, the early
\* test takes exactly the loop-state symbols as parameters, the same
\* parameters in the same order as the state parameters of the body function,
\* and every occurrence of a loop-state symbol in the early-stop predicate is
\* replaced by its parameter.
C9_EarlyTest ==
  (node.kind = "For" /\ node.has_extra_test /\ pc = "visited") =>
    LET early == Construct(1)
        body == Construct(2)
        call == Construct(3)
    IN /\ Len(out.stmts) = Cardinality(GuardIndexes) + 3
       /\ call.args[2] = <<early.func>>
       /\ call.args[3] = <<body.func>>
       /\ call.args[4] = out.loop_state
       /\ \A s \in Symbols : s \in LoopState <=> InLoopState(node, s)
       /\ Len(early.params) = Cardinality(LoopState)
       /\ \A i, j \in 1..Len(early.params) :
            early.params[i] = early.params[j] => i = j
       /\ body.params = <<"loop_vars">> \o early.params
       /\ \A i \in 1..Len(out.loop_state) :
            early.params[i] = ParamMap[out.loop_state[i]]
       /\ Len(early.returns) = Len(node.extra_test)
       /\ \A i \in 1..Len(node.extra_test) :
            /\ node.extra_test[i] \in LoopState =>
                 early.returns[i] = ParamMap[node.extra_test[i]]
            /\ early.returns[i] = rename_symbol(node.extra_test[i], ParamMap)
            /\ early.returns[i] \in LoopState =>
                 early.returns[i] \in Range(early.params)

\* An early-stop predicate that reads a loop-state symbol and another symbol.
C9_Witness ==
  /\ node.kind = "For" /\ node.has_extra_test /\ pc = "visited"
  /\ \E i, j \in 1..Len(node.extra_test) :
       /\ node.extra_test[i] \in LoopState
       /\ node.extra_test[j] \notin LoopState

\* A set of symbols after the renaming of a branch.
RenamedSet(S, alias_map) ==
  {IF s \in DOMAIN alias_map THEN alias_map[s] ELSE s : s \in S}

\* The aliased symbols of a branch already renamed with alias_map.
Realiased(scope_modified, block, block0_live_in, alias_map) ==
  UNION {_determine_aliased_symbols(
           RenamedSet(scope_modified, alias_map), node.defined_in, block,
           RenamedSet(block0_live_in, alias_map), order) :
         order \in Orders(RenamedSet(scope_modified, alias_map))}

\* C10: after a branch has been renamed with its alias map, computing the
\* aliased symbols of the renamed branch (its modified set and the live-in set
\* of its first statement with each aliased symbol replaced by its new name,
\* the same defined_in) gives the empty set.
C10_AliasFixedPoint ==
  (node.kind = "If" /\ pc = "visited") =>
    /\ Realiased(node.body_modified, TRUE, node.body_live_in,
                 out.alias_body_map) = {}
    /\ Realiased(node.orelse_modified, node.orelse, node.orelse_live_in,
                 out.alias_orelse_map) = {}

\* The statements that call the while-style loop primitive.
WhileCalls ==
  {i \in 1..Len(out.stmts) :
     out.stmts[i].op = "call" /\ out.stmts[i].func = "ag__.while_stmt"}

\* The symbols reachable from T by taking support sets any number of times.
RECURSIVE SupportReach(_)
SupportReach(T) ==
  LET more == T \cup UNION {support_set(t) : t \in T}
  IN IF more = T THEN T ELSE SupportReach(more)

\* The transitive support-set closure of S: what is reachable from a member
\* of S in one or more steps of taking the support set.
SupportClosure(S) == SupportReach(UNION {support_set(s) : s \in S})

\* C11: for every while loop, with or without loop state, the statements
\* returned hold exactly one call of ag__.while_stmt, it is the last statement,
\* and the symbols of its fourth argument (the extra dependencies) are exactly
\* the symbols reachable from a symbol read by the test by repeatedly taking
\* support sets; its third argument is the loop state, empty or not.
C11_ExtraDeps ==
  (node.kind = "While" /\ pc # "analysis") =>
    /\ pc = "visited"
    /\ Cardinality(WhileCalls) = 1
    /\ \A i \in WhileCalls :
         /\ i = Len(out.stmts)
         /\ Len(out.stmts[i].args) = 4
         /\ out.stmts[i].args[3] = out.loop_state
         /\ Range(out.stmts[i].args[4]) = SupportClosure(node.cond_read)
    /\ \A s \in Symbols : s \in LoopState <=> InLoopState(node, s)

\* A while loop without loop state whose test reads a subscript: the call
\* still carries the two simple symbols the subscript rests on.
C11_Witness ==
  /\ node.kind = "While" /\ pc = "visited"
  /\ out.loop_state = <<>>
  /\ node.body_modified # {}
  /\ "x.f[x_1]" \in node.cond_read
  /\ \E i \in WhileCalls : Range(out.stmts[i].args[4]) = {"x", "x_1"}

====
